---------------------------- MODULE Spec2Model ----------------------------
(***************************************************************************)
(* The crawl frontier and the batch orchestrator of the profile discovery  *)
(* program: the three handle-bearing tables (seed_usernames,               *)
(* discovered_accounts, passed_influencers), QueueManager's run loop, its  *)
(* semaphore-bounded batch of worker threads and the administrative        *)
(* commands of the bot that touch them.                                    *)
(*                                                                         *)
(* A table is the bag of its rows.  Every database session is one          *)
(* transaction: a worker's reads and its commit are separate steps, so     *)
(* that other threads interleave between a check-if-exists query and the   *)
(* insert that follows it.                                                 *)
(***************************************************************************)
EXTENDS Integers, Sequences, FiniteSets, Bags, TLC

\* ------------------------------------------------------------------ bounds
Handles == {"a", "b", "c"}
MaxLevel == 2        \* largest max_level a run is configured with
MaxLimit == 2        \* largest concurrent limit the model sets
MaxFollow == 2       \* longest follow list a fetch returns
MaxAccounts == 2     \* most identities a scraper is built with
MaxRequestsPerHour == 2  \* max_requests_per_hour (50 in the source)
MaxCount == 2        \* largest follower count, view count and count threshold
MaxReels == 2        \* most reels handed to check_account
MaxTokens == 3       \* most words of a bio

\* ------------------------------------------------------- program constants
ErrorThreshold == 5  \* consecutive_errors >= 5 stops the loop
BaseBackoff == 30    \* backoff_time = 30 * consecutive_errors
LimitMin == 1        \* set_concurrent rejects limit < 1
LimitMax == 20       \* set_concurrent rejects limit > 20
MaxRetries == 3      \* _safe_request(..., max_retries=3)
MinUsernameLen == 5  \* [a-zA-Z0-9_]{5,32} and 5 <= len(username) <= 32
MaxUsernameLen == 32
RateLimitDelay == 10 \* time.sleep(10 * retries) after a RateLimitError
ErrorDelay == 5      \* time.sleep(5 * retries) after another error

VARIABLES
    seeds,               \* table seed_usernames: rows [username, status]
    discovered,          \* table discovered_accounts: rows [username, status, level, parent]
    passed,              \* table passed_influencers: rows [username, level]
    concurrent_limit,    \* QueueManager.concurrent_limit
    max_level,           \* QueueManager.max_level
    script_config,       \* table script_config: the values of concurrent_limit and max_level
    is_running,          \* QueueManager.is_running
    consecutive_errors,  \* local of run_processing_loop
    loopPc,              \* position of run_processing_loop
    sleep,               \* seconds of the time.sleep the loop is in (0: not sleeping)
    batch,               \* pending: what get_pending_usernames returned
    semaphore,           \* permits left of the batch's asyncio.Semaphore
    sem_limit,           \* the value the batch's semaphore was created with
    errs_since_batch,    \* history: loop exceptions since the last completed batch
    w,                   \* the batch's workers: w[r] runs process_username(r)
    call,                \* the last direct call of a store operation and what it returned
    accounts,            \* len(InstagramScraper.accounts): the identities 0..accounts-1
    current_account_index,   \* InstagramScraper.current_account_index
    clients,             \* InstagramScraper.clients: the identities that hold a client
    account_request_times,   \* per identity, its request timestamps of the last hour
    req,                 \* the _safe_request in flight
    profile,             \* the get_complete_profile_data in flight and its result
    peer,                \* the _safe_request of another worker's thread in flight
    pool_hist            \* history: logins that failed, who served the calls

scraperVars == <<accounts, current_account_index, clients,
                 account_request_times, req, profile, peer, pool_hist>>

vars == <<seeds, discovered, passed, concurrent_limit, max_level, script_config, is_running,
          consecutive_errors, loopPc, sleep, batch, semaphore,
          sem_limit, errs_since_batch, w, call, scraperVars>>

storeVars == <<seeds, discovered, passed>>

\* __init__: self.config = self._load_config() and the two values taken from
\* it: the rows of the table are what the manager holds
LoadConfig == [concurrent_limit |-> concurrent_limit, max_level |-> max_level]

queueVars == <<storeVars, concurrent_limit, max_level, script_config, is_running,
               consecutive_errors, loopPc, sleep, batch, semaphore,
               sem_limit, errs_since_batch, w, call>>

\* ------------------------------------------------------------- the tables
SeedStatus == {"pending", "processing", "checked"}
AccountStatus == {"pending", "pass", "fail", "checked", "processing"}

Rows(table) == BagToSet(table)

\* the rows of username u
RowsOf(table, u) == {r \in Rows(table) : r.username = u}

\* how many rows of table have username u
CountOf(table, u) ==
    LET RECURSIVE Sum(_)
        Sum(S) == IF S = {} THEN 0
                  ELSE LET r == CHOOSE x \in S : TRUE
                       IN CopiesIn(r, table) + Sum(S \ {r})
    IN Sum(RowsOf(table, u))

\* session.query(T).filter(T.username == u).first() is not None
HasRow(table, u) == RowsOf(table, u) # {}

\* an update that does not reach the table
UpdateStatusLost(table, u, s) == table

\* session.query(T).filter(T.username == u).update({'status': s})
UpdateStatus(table, u, s) ==
    LET hit == RowsOf(table, u)
        rest == [r \in Rows(table) \ hit |-> table[r]]
        RECURSIVE Put(_, _)
        Put(B, H) == IF H = {} THEN B
                     ELSE LET r == CHOOSE x \in H : TRUE
                          IN Put(B (+) [x \in {[r EXCEPT !.status = s]} |-> table[r]],
                                 H \ {r})
    IN Put(rest, hit)

\* session.add(row) for each of rows, a list
RECURSIVE AddAll(_, _)
AddAll(table, rows) ==
    IF rows = << >> THEN table
    ELSE AddAll(table (+) SetToBag({Head(rows)}), Tail(rows))

\* the list rows has a row of username u
InRows(rows, u) == \E k \in DOMAIN rows : rows[k].username = u

\* the tables without their unique constraint
UniqueViolationNever(table, rows) == FALSE

\* Column(username, unique=True): the INSERT of rows into table raises
\* IntegrityError when a username is already there or comes twice.
UniqueViolation(table, rows) ==
    \/ \E k \in DOMAIN rows : HasRow(table, rows[k].username)
    \/ \E j, k \in DOMAIN rows : j # k /\ rows[j].username = rows[k].username

SeedRow(u) == [username |-> u, status |-> "pending"]
DiscoveredRow(u, lvl, parent) ==
    [username |-> u, status |-> "pending", level |-> lvl, parent |-> parent]
PassedRow(u, lvl) == [username |-> u, level |-> lvl]

\* ------------------------------------------------- _add_followings_to_queue
\* the existence queries without the one for a seed
ExistsAnywhereNoSeed(u, rows) ==
    LET existing_discovered == HasRow(discovered, u) \/ InRows(rows, u)
        existing_passed == HasRow(passed, u)
    IN existing_discovered \/ existing_passed

\* The three existence queries before an insert.  The session autoflushes
\* before each query, so the rows it has added so far count as discovered.
ExistsAnywhere(u, rows) ==
    LET existing_discovered == HasRow(discovered, u) \/ InRows(rows, u)
        existing_passed == HasRow(passed, u)
        existing_seed == HasRow(seeds, u)
    IN existing_discovered \/ existing_passed \/ existing_seed

\* the for-loop behind a level check of its own
RECURSIVE PendingRowsCapped(_, _, _, _)
PendingRowsCapped(parent, followings, level, rows) ==
    IF followings = << >> \/ level > max_level THEN rows
    ELSE LET u == Head(followings)
         IN PendingRowsCapped(parent, Tail(followings), level,
                IF ExistsAnywhere(u, rows) THEN rows
                ELSE Append(rows, DiscoveredRow(u, level, parent)))

\* The for-loop over followings: the rows the session holds when it commits.
RECURSIVE PendingRows(_, _, _, _)
PendingRows(parent, followings, level, rows) ==
    IF followings = << >> THEN rows
    ELSE LET u == Head(followings)
         IN PendingRows(parent, Tail(followings), level,
                IF ExistsAnywhere(u, rows) THEN rows
                ELSE Append(rows, DiscoveredRow(u, level, parent)))

\* session.commit() of the added rows: all of them, or on an error (a unique
\* violation, a store failure) none of them because the session rolls back.
CommitsUnchecked(table, rows, ok) == ok
Commits(table, rows, ok) == ok /\ ~UniqueViolation(table, rows)
CommitRows(table, rows, ok) ==
    IF Commits(table, rows, ok) THEN AddAll(table, rows) ELSE table

\* ------------------------------------------------------ get_pending_usernames
Min(a, b) == IF a < b THEN a ELSE b

\* query.limit(n): any n of the matching rows (all of them when fewer match)
Limit(S, n) == {T \in SUBSET S : Cardinality(T) = Min(n, Cardinality(S))}

\* the query without its order_by
OrderByLevelLimitUnordered(S, n) == Limit(S, n)

\* query.order_by(level).limit(n): no row left out is shallower than a row taken
OrderByLevelLimit(S, n) ==
    {T \in Limit(S, n) : \A r \in T, q \in S \ T : r.level <= q.level}

\* the seed query without its status filter on Processing
PendingSeedsOrProcessing ==
    {r \in Rows(seeds) : r.status \in {"pending", "processing"}}

PendingSeeds == {r \in Rows(seeds) : r.status = "pending"}
PendingDiscovered ==
    {r \in Rows(discovered) : r.status = "pending" /\ r.level <= max_level}

SeedRef(s) == [username |-> s.username, level |-> 0, type |-> "seed"]
DiscoveredRef(d) == [username |-> d.username, level |-> d.level, type |-> "discovered"]

\* every result get_pending_usernames(limit) can have on the current store
GetPendingUsernames(limit) ==
    UNION { LET pending == {SeedRef(r) : r \in S}
                remaining == limit - Cardinality(pending)
            IN IF Cardinality(pending) < limit
               THEN {pending \cup {DiscoveredRef(r) : r \in D} :
                        D \in OrderByLevelLimit(PendingDiscovered, remaining)}
               ELSE {pending} :
            S \in Limit(PendingSeeds, limit) }

\* ------------------------------------------------------------ the workers
\* what get_user_followings can return when the accounts of H exist
FollowLists(H) == UNION {[1..n -> H] : n \in 0..MaxFollow}
ListsOfTwo == FollowLists({"a", "b"})
ListsOfAll == FollowLists(Handles)

NoCall == [op |-> "none"]

\* process_username's result dict and the locals of a worker that has not
\* started; logged: _store_passed_influencer or _add_followings_to_queue has
\* caught an exception and logged it; unmarked: the write of _mark_as_failed
\* has failed
Worker0 ==
    [pc |-> "wait", rows |-> << >>, logged |-> FALSE, unmarked |-> FALSE,
     result |-> [success |-> FALSE, passed |-> FALSE, followings_added |-> 0,
                 error |-> "none"]]

\* the worker is inside process_username
Executing(r) == w[r].pc \notin {"wait", "done"}

workerFrame == <<concurrent_limit, max_level, script_config, is_running, consecutive_errors, loopPc, sleep,
                 batch, sem_limit, errs_since_batch, call, scraperVars>>

\* tasks that do not wait for a permit
CanAcquireAlways == TRUE

\* async with semaphore: a task enters when a permit is left
CanAcquire == semaphore > 0

\* the comparison with <= for <
WithinLevelLimitInclusive(level) == level <= max_level

\* if level < self.max_level
WithinLevelLimit(level) == level < max_level

\* a worker that stores its handle whatever check_account returned
AfterStoreAgain(r) == "store"

\* the statement after _store_passed_influencer (or after a failed check)
AfterStatus(r) == IF WithinLevelLimit(r.level) THEN "enqueue" ELSE "final"
AfterStore(r) == IF r.type # "seed" THEN "status" ELSE AfterStatus(r)

\* a _mark_as_failed that writes nothing
MarkAsFailedSkipped(r, ok) == UNCHANGED <<seeds, discovered>>

\* _mark_as_failed: a session of its own; a failure of its write is logged only
MarkAsFailed(r, ok) ==
    /\ seeds' = IF ok /\ r.type = "seed"
                THEN UpdateStatus(seeds, r.username, "checked") ELSE seeds
    /\ discovered' = IF ok /\ r.type # "seed"
                     THEN UpdateStatus(discovered, r.username, "fail")
                     ELSE discovered

\* return result: the thread ends and its task leaves `async with semaphore`
Return(r, result) ==
    /\ w' = [w EXCEPT ![r].pc = "done", ![r].result = result]
    /\ semaphore' = semaphore + 1

\* return result after _mark_as_failed, whose write went through (ok) or not
ReturnFailed(r, result, ok) ==
    /\ w' = [w EXCEPT ![r].pc = "done", ![r].result = result,
                      ![r].unmarked = ~ok]
    /\ semaphore' = semaphore + 1

\* an except branch that does not record the error
ErrorResultDropped(result, e) == result

\* except Exception as e: result['error'] = str(e)
ErrorResult(result, e) == [result EXCEPT !.error = e]

\* the except branch of process_username
Raise(r, result) ==
    \E ok \in BOOLEAN :
        /\ MarkAsFailed(r, ok)
        /\ ReturnFailed(r, ErrorResult(result, "exception"), ok)
        /\ UNCHANGED passed

\* a worker that goes to the data source before it marks its row
AcquireUnmarked(r) ==
    /\ loopPc = "running" /\ w[r].pc = "wait"
    /\ CanAcquire
    /\ semaphore' = semaphore - 1
    /\ w' = [w EXCEPT ![r].pc = "fetch"]
    /\ UNCHANGED <<storeVars, workerFrame>>

\* async with semaphore: the task has a permit and its thread starts
Acquire(r) ==
    /\ loopPc = "running" /\ w[r].pc = "wait"
    /\ CanAcquire
    /\ semaphore' = semaphore - 1
    /\ w' = [w EXCEPT ![r].pc = "mark"]
    /\ UNCHANGED <<storeVars, workerFrame>>

\* mark as processing, commit
MarkProcessing(r) ==
    /\ loopPc = "running" /\ w[r].pc = "mark"
    /\ \/ /\ seeds' = IF r.type = "seed"
                      THEN UpdateStatus(seeds, r.username, "processing")
                      ELSE seeds
          /\ discovered' = IF r.type # "seed"
                           THEN UpdateStatus(discovered, r.username, "processing")
                           ELSE discovered
          /\ w' = [w EXCEPT ![r].pc = "fetch"]
          /\ UNCHANGED <<passed, semaphore>>
       \/ Raise(r, w[r].result)
    /\ UNCHANGED workerFrame

\* get_complete_profile_data, check_account and, when passed, extract_all
Fetch(r) ==
    /\ loopPc = "running" /\ w[r].pc = "fetch"
    /\ \/ \E ok \in BOOLEAN :          \* if not profile_data
            /\ MarkAsFailed(r, ok)
            /\ ReturnFailed(r, ErrorResult(w[r].result,
                                           "Failed to fetch profile data"), ok)
            /\ UNCHANGED passed
       \/ Raise(r, w[r].result)        \* check_account raises
       \/ Raise(r, [w[r].result EXCEPT !.passed = TRUE])   \* extract_all raises
       \/ \E p \in BOOLEAN :
            /\ w' = [w EXCEPT ![r].result.passed = p,
                              ![r].pc = IF p THEN "store" ELSE AfterStore(r)]
            /\ UNCHANGED <<storeVars, semaphore>>
    /\ UNCHANGED workerFrame

\* _store_passed_influencer: the query for an existing row
AlreadyStored(u) == HasRow(passed, u)

StoreCheck(r) ==
    /\ loopPc = "running" /\ w[r].pc = "store"
    /\ w' = [w EXCEPT ![r].pc = IF AlreadyStored(r.username)
                                THEN AfterStore(r) ELSE "store_commit"]
    /\ UNCHANGED <<storeVars, semaphore, workerFrame>>

\* _store_passed_influencer: session.add(influencer), session.commit(); an
\* exception is logged and the session rolled back
StoreCommit(r) ==
    /\ loopPc = "running" /\ w[r].pc = "store_commit"
    /\ \E ok \in BOOLEAN, rows \in {<<PassedRow(r.username, r.level)>>} :
        /\ passed' = CommitRows(passed, rows, ok)
        /\ w' = [w EXCEPT ![r].logged = @ \/ ~Commits(passed, rows, ok),
                          ![r].pc = AfterStore(r)]
    /\ UNCHANGED <<seeds, discovered, semaphore, workerFrame>>

\* update status in discovered_accounts (if not seed), commit
StatusWrite(r) ==
    /\ loopPc = "running" /\ w[r].pc = "status"
    /\ \/ /\ discovered' = UpdateStatus(discovered, r.username,
                               IF w[r].result.passed THEN "pass" ELSE "fail")
          /\ w' = [w EXCEPT ![r].pc = AfterStatus(r)]
          /\ UNCHANGED <<seeds, passed, semaphore>>
       \/ Raise(r, w[r].result)
    /\ UNCHANGED workerFrame

\* _add_followings_to_queue(username, followings, level + 1): the for-loop over
\* the followings of the fetched profile (the list is drawn here, where it is
\* first read)
Enqueue(r, lists) ==
    /\ loopPc = "running" /\ w[r].pc = "enqueue"
    /\ \E followings \in lists :
        \E rows \in {PendingRows(r.username, followings, r.level + 1, << >>)} :
            w' = [w EXCEPT ![r].rows = rows,
                           ![r].result.followings_added = Len(rows),
                           ![r].pc = "enqueue_commit"]
    /\ UNCHANGED <<storeVars, semaphore, workerFrame>>

\* _add_followings_to_queue: session.commit(), return added
EnqueueCommit(r) ==
    /\ loopPc = "running" /\ w[r].pc = "enqueue_commit"
    /\ \E ok \in BOOLEAN :
        /\ discovered' = CommitRows(discovered, w[r].rows, ok)
        /\ w' = [w EXCEPT ![r].logged = @ \/ ~Commits(discovered, w[r].rows, ok),
                          ![r].rows = << >>, ![r].pc = "final"]
    /\ UNCHANGED <<seeds, passed, semaphore, workerFrame>>

\* mark as checked, commit, return result
FinalWrite(r) ==
    /\ loopPc = "running" /\ w[r].pc = "final"
    /\ \/ /\ seeds' = IF r.type = "seed"
                      THEN UpdateStatus(seeds, r.username, "checked")
                      ELSE seeds
          /\ discovered' = IF r.type # "seed"
                           THEN UpdateStatus(discovered, r.username, "checked")
                           ELSE discovered
          /\ Return(r, [w[r].result EXCEPT !.success = TRUE])
          /\ UNCHANGED passed
       \/ Raise(r, w[r].result)
    /\ UNCHANGED workerFrame

\* ------------------------------------------------------ run_processing_loop
\* the comparison with > for >=
TooManyErrorsLate(n) == n > ErrorThreshold

\* if consecutive_errors >= 5
TooManyErrors(n) == n >= ErrorThreshold

\* backoff_time = 30 * consecutive_errors
Backoff(n) == BaseBackoff * n

\* self.is_running = True; consecutive_errors = 0
LoopStart ==
    /\ loopPc = "start"
    /\ is_running' = TRUE
    /\ consecutive_errors' = 0
    /\ errs_since_batch' = 0
    /\ loopPc' = "while"
    /\ UNCHANGED <<storeVars, concurrent_limit, max_level, script_config, sleep, batch, semaphore,
                   sem_limit, w, call, scraperVars>>

\* while self.is_running: left when stop() has cleared the flag
LoopExit ==
    /\ loopPc = "while" /\ ~is_running
    /\ loopPc' = "stopped"
    /\ UNCHANGED <<storeVars, concurrent_limit, max_level, script_config, is_running, consecutive_errors,
                   sleep, batch, semaphore, sem_limit,
                   errs_since_batch, w, call, scraperVars>>

\* a loop whose empty poll counts as a successful batch
LoopSelectResetting ==
    /\ loopPc = "while" /\ is_running
    /\ \E pending \in GetPendingUsernames(concurrent_limit) :
        IF pending = {}
        THEN /\ loopPc' = "idle_sleep" /\ sleep' = 30
             /\ consecutive_errors' = 0
             /\ UNCHANGED batch
        ELSE /\ loopPc' = "dispatch"
             /\ batch' = pending
             /\ UNCHANGED <<sleep, consecutive_errors>>
    /\ UNCHANGED <<storeVars, concurrent_limit, max_level, script_config, is_running,
                   semaphore, sem_limit, errs_since_batch, w, call, scraperVars>>

\* pending = self.get_pending_usernames(self.concurrent_limit); with nothing
\* pending time.sleep(30) and continue
LoopSelect ==
    /\ loopPc = "while" /\ is_running
    /\ \E pending \in GetPendingUsernames(concurrent_limit) :
        IF pending = {}
        THEN /\ loopPc' = "idle_sleep" /\ sleep' = 30
             /\ UNCHANGED batch
        ELSE /\ loopPc' = "dispatch"
             /\ batch' = pending
             /\ UNCHANGED sleep
    /\ UNCHANGED <<storeVars, concurrent_limit, max_level, script_config, is_running, consecutive_errors,
                   semaphore, sem_limit, errs_since_batch, w, call, scraperVars>>

\* except Exception: an exception that reaches the loop body (the store fails
\* under get_pending_usernames)
LoopException ==
    /\ loopPc = "while" /\ is_running
    /\ consecutive_errors' = consecutive_errors + 1
    /\ errs_since_batch' = errs_since_batch + 1
    /\ IF TooManyErrors(consecutive_errors')
       THEN loopPc' = "aborted" /\ UNCHANGED sleep
       ELSE loopPc' = "backoff" /\ sleep' = Backoff(consecutive_errors')
    /\ UNCHANGED <<storeVars, concurrent_limit, max_level, script_config, is_running, batch, semaphore,
                   sem_limit, w, call, scraperVars>>

\* process_batch_async: semaphore = asyncio.Semaphore(self.concurrent_limit),
\* one task per entry of the batch
LoopDispatch ==
    /\ loopPc = "dispatch"
    /\ semaphore' = concurrent_limit
    /\ sem_limit' = concurrent_limit
    /\ w' = [r \in batch |-> Worker0]
    /\ loopPc' = "running"
    /\ UNCHANGED <<storeVars, concurrent_limit, max_level, script_config, is_running, consecutive_errors,
                   sleep, batch, errs_since_batch, call, scraperVars>>

\* gather has every result: the counts are logged, consecutive_errors = 0,
\* time.sleep(10)
LoopCollect ==
    /\ loopPc = "running"
    /\ \A r \in DOMAIN w : w[r].pc = "done"
    /\ consecutive_errors' = 0
    /\ errs_since_batch' = 0
    /\ w' = << >>
    /\ batch' = {}
    /\ semaphore' = 0
    /\ sem_limit' = 0
    /\ loopPc' = "batch_sleep"
    /\ sleep' = 10
    /\ UNCHANGED <<storeVars, concurrent_limit, max_level, script_config, is_running, call, scraperVars>>

\* a time.sleep returns
LoopWake ==
    /\ loopPc \in {"idle_sleep", "batch_sleep", "backoff"}
    /\ loopPc' = "while"
    /\ sleep' = 0
    /\ UNCHANGED <<storeVars, concurrent_limit, max_level, script_config, is_running, consecutive_errors,
                   batch, semaphore, sem_limit,
                   errs_since_batch, w, call, scraperVars>>

\* ------------------------------------------------ the administrative commands
adminFrame == <<discovered, passed, max_level, consecutive_errors, loopPc, sleep,
                batch, semaphore, sem_limit, errs_since_batch, w, call, scraperVars>>

\* /add_seed <username>
AddSeed(u) ==
    /\ seeds' = IF HasRow(seeds, u) THEN seeds
                ELSE CommitRows(seeds, <<SeedRow(u)>>, TRUE)
    /\ UNCHANGED <<concurrent_limit, script_config, is_running, adminFrame>>

\* /set_concurrent <number>: the row of the table and the manager's value
SetConcurrent(limit) ==
    /\ concurrent_limit' = IF limit < LimitMin \/ limit > LimitMax
                           THEN concurrent_limit ELSE limit
    /\ script_config' = IF limit < LimitMin \/ limit > LimitMax
                        THEN script_config
                        ELSE [script_config EXCEPT !.concurrent_limit = limit]
    /\ UNCHANGED <<seeds, is_running, adminFrame>>

\* A row of script_config is updated in the database ("To update, use
\* database directly", /set_criteria); no code of the process runs.
ConfigWrite(key, value) ==
    /\ script_config[key] # value
    /\ script_config' = [script_config EXCEPT ![key] = value]
    /\ UNCHANGED <<seeds, concurrent_limit, is_running, adminFrame>>

\* /pause: queue_manager.stop()
Stop ==
    /\ is_running' = FALSE
    /\ UNCHANGED <<seeds, concurrent_limit, script_config, adminFrame>>

\* The process ends (it is killed, or stopped for the restart /resume asks
\* for) and main() builds a new QueueManager from the same configuration and
\* starts its loop thread; the tables are as the old process left them.
Restart ==
    /\ loopPc # "start"
    /\ is_running' = FALSE
    /\ consecutive_errors' = 0
    /\ errs_since_batch' = 0
    /\ loopPc' = "start"
    /\ sleep' = 0
    /\ batch' = {}
    /\ semaphore' = 0
    /\ sem_limit' = 0
    /\ w' = << >>
    /\ concurrent_limit' = script_config.concurrent_limit
    /\ max_level' = script_config.max_level
    /\ UNCHANGED <<storeVars, script_config, call, scraperVars>>

\* ------------------------------------------------------------ the scraper
Identities == 0..(accounts - 1)

NoReq == [pc |-> "none", kind |-> "none", retries |-> 0, attempts |-> 0,
          calls |-> 0, user |-> 0, value |-> "none", not_found |-> FALSE,
          exhausted |-> FALSE, signal |-> "none", sleep |-> 0]

\* _safe_request(_fetch) entered: retries = 0 (calls, not_found, exhausted:
\* history of the request: calls of the data source, a NotFound answer, a
\* raise of _get_current_client; signal, sleep: the exception of the last
\* failed attempt and the seconds slept after it)
NewReq(kind) == [NoReq EXCEPT !.pc = "acquire", !.kind = kind]

NoProfile == [result |-> "idle", exists |-> TRUE, user_info |-> "unset",
              reels |-> "unset", followings |-> "unset", failed |-> {}]

\* the scraper's rotation state, as one value the methods pass on
PoolState ==
    [index |-> current_account_index, clients |-> clients,
     times |-> account_request_times, hist |-> pool_hist]

\* the rate check with > for >=
CheckHourlyRateLimitLate(times, a) == ~(times[a] > MaxRequestsPerHour)

\* _check_hourly_rate_limit: False when len(recent_requests) >= the maximum
CheckHourlyRateLimit(times, a) == ~(times[a] >= MaxRequestsPerHour)

\* history of a login of identity a: which identities have failed their last
\* login, and whether a login was attempted again on such an identity
Logged(hist, a, ok) ==
    [hist EXCEPT !.retried = @ \/ a \in hist.failed,
                 !.failed = IF ok THEN @ \ {a} ELSE @ \cup {a},
                 !.clean = @ /\ ok,
                 !.served = IF hist.clean /\ ok THEN @ ELSE << >>]

\* history of account_request_times[a] = []: n timestamps of the last hour
\* are dropped from the list (wiped[a]: how many of identity a's requests of
\* the last hour the list has lost, counted up to the maximum; kept in the
\* runs that start with track set)
Cleared(hist, a, n) ==
    IF ~hist.track THEN hist
    ELSE [hist EXCEPT !.wiped[a] =
            IF @ + n > MaxRequestsPerHour THEN MaxRequestsPerHour ELSE @ + n]

\* _login_account: on success the client is kept and the identity's request
\* times are cleared; every exception is caught and False returned
LoginAccount(ps, a, ok) ==
    [ps EXCEPT !.clients = IF ok THEN @ \cup {a} ELSE @,
               !.times = IF ok THEN [@ EXCEPT ![a] = 0] ELSE @,
               !.hist = Cleared(Logged(@, a, ok), a, IF ok THEN ps.times[a] ELSE 0)]

\* _rotate_account: the next ring position, logged in if it holds no client
RotateAccount(ps, ok) ==
    LET next == (ps.index + 1) % accounts
        moved == [ps EXCEPT !.index = next]
    IN IF next \notin ps.clients THEN LoginAccount(moved, next, ok) ELSE moved

\* the scraper's fields take the values of ps
SetPool(ps) ==
    /\ current_account_index' = ps.index
    /\ clients' = ps.clients
    /\ account_request_times' = ps.times
    /\ pool_hist' = ps.hist

\* the retry test with <= for <
RetriesLeftInclusive(n) == n <= MaxRetries

\* while retries < max_retries
RetriesLeft(n) == n < MaxRetries

\* an except branch of _safe_request: retries += 1, then the while test; after
\* the loop raise Exception("Failed after ... retries")
Retry(r) ==
    LET n == r.retries + 1
    IN [r EXCEPT !.retries = n, !.attempts = 0, !.user = 0,
                 !.pc = IF RetriesLeft(n) THEN "acquire" ELSE "failed"]

\* a sleep after a rate limit that does not grow with the attempts
RateLimitSleepFlat(n) == RateLimitDelay

\* time.sleep(10 * retries)
RateLimitSleep(n) == RateLimitDelay * n

\* time.sleep(5 * retries)
ErrorSleep(n) == ErrorDelay * n

\* the except branch for signal: retries += 1 and its sleep
Except(r, signal) ==
    LET n == r.retries + 1
    IN [Retry(r) EXCEPT
          !.signal = signal,
          !.sleep = CASE signal = "rate_limit" -> RateLimitSleep(n)
                      [] signal = "login_required" -> 0
                      [] OTHER -> ErrorSleep(n)]

\* get_complete_profile_data(username) begins with get_user_info; the handle
\* exists at the data source or not
StartProfile ==
    /\ profile.result # "running" /\ req.pc = "none"
    /\ \E e \in BOOLEAN :
        profile' = [NoProfile EXCEPT !.result = "running", !.exists = e]
    /\ req' = NewReq("info")
    /\ UNCHANGED <<accounts, current_account_index, clients,
                   account_request_times, pool_hist, peer, queueVars>>

\* one turn of the while loop of _get_current_client in the request r: the
\* pool and the request after it; after len(accounts) turns it raises, which
\* _safe_request catches as a generic exception
AcquireTurn(r, ok1, ok2) ==
    LET a == current_account_index
        free == CheckHourlyRateLimit(account_request_times, a)
        ps1 == IF free /\ a \notin clients
               THEN LoginAccount(PoolState, a, ok1) ELSE PoolState
        ps2 == RotateAccount(ps1, ok2)
        n == r.attempts + 1
    IN IF free /\ a \in ps1.clients
       THEN [pool |-> ps1,
             req |-> [r EXCEPT !.pc = "call", !.user = a,
                               !.signal = "none", !.sleep = 0]]
       ELSE IF n < accounts
       THEN [pool |-> ps2,
             req |-> [r EXCEPT !.attempts = n, !.signal = "none", !.sleep = 0]]
       ELSE [pool |-> ps2,
             req |-> Except([r EXCEPT !.exhausted = TRUE], "error")]

AcquireStep ==
    /\ req.pc = "acquire"
    /\ \E ok1, ok2 \in BOOLEAN :
        \E t \in {AcquireTurn(req, ok1, ok2)} :
            SetPool(t.pool) /\ req' = t.req
    /\ UNCHANGED <<accounts, profile, peer, queueVars>>

\* what func(client) can do: the instagrapi call returns, or raises
\* RateLimitError, LoginRequired/ChallengeRequired, or another exception
\* (UserNotFound for the profile of a handle that does not exist); of a list
\* of followings it matters whether it is empty
Outcomes(r) ==
    {"rate_limit", "login_required", "error"}
        \cup (IF r.kind = "info"
              THEN IF profile.exists THEN {"data"} ELSE {"not_found"}
              ELSE IF r.kind = "reels" THEN {"list"}
              ELSE {"empty", "list"})

\* result = func(client, ...) with the outcome out and what follows it in
\* _safe_request: the pool and the request after it
CallTurn(r0, out, ok) ==
    LET r == [r0 EXCEPT !.calls = @ + 1,
                        !.not_found = @ \/ out = "not_found"]
        ps == [PoolState EXCEPT !.hist.clean = FALSE, !.hist.served = << >>]
    IN CASE out \in {"data", "empty", "list"} ->
              [pool |-> [PoolState EXCEPT
                            !.times[r0.user] = @ + 1,
                            !.hist.served = IF pool_hist.clean
                                            THEN Append(@, r0.user) ELSE @],
               req |-> [r EXCEPT !.pc = "returned", !.value = out]]
         [] out = "rate_limit" ->
              [pool |-> RotateAccount(ps, ok), req |-> Except(r, out)]
         [] out = "login_required" ->
              [pool |-> RotateAccount(
                    [ps EXCEPT !.clients = @ \ {current_account_index}], ok),
               req |-> Except(r, out)]
         [] OTHER ->
              [pool |-> ps, req |-> Except(r, "error")]

CallSource ==
    /\ req.pc = "call"
    /\ \E out \in Outcomes(req), ok \in BOOLEAN :
        \E t \in {CallTurn(req, out, ok)} :
            SetPool(t.pool) /\ req' = t.req
    /\ UNCHANGED <<accounts, profile, peer, queueVars>>

\* Another worker's thread in get_user_reels of its own handle: the same
\* _safe_request on the same scraper.
PeerStart ==
    /\ peer.pc = "none"
    /\ peer' = NewReq("reels")
    /\ UNCHANGED <<accounts, current_account_index, clients,
                   account_request_times, pool_hist, req, profile, queueVars>>

PeerAcquireStep ==
    /\ peer.pc = "acquire"
    /\ \E ok1, ok2 \in BOOLEAN :
        \E t \in {AcquireTurn(peer, ok1, ok2)} :
            SetPool(t.pool) /\ peer' = t.req
    /\ UNCHANGED <<accounts, profile, req, queueVars>>

\* the data source answers the other thread's call
PeerCallSource ==
    /\ peer.pc = "call"
    /\ \E out \in {"list"}, ok \in {TRUE} :
        \E t \in {CallTurn(peer, out, ok)} :
            SetPool(t.pool) /\ peer' = t.req
    /\ UNCHANGED <<accounts, profile, req, queueVars>>

\* the other thread's call raises RateLimitError: its _safe_request rotates
\* the ring
PeerCallLimited ==
    /\ peer.pc = "call"
    /\ \E ok \in BOOLEAN :
        \E t \in {CallTurn(peer, "rate_limit", ok)} :
            SetPool(t.pool) /\ peer' = t.req
    /\ UNCHANGED <<accounts, profile, req, queueVars>>

\* get_user_reels returns in the other thread
PeerFinish ==
    /\ peer.pc \in {"returned", "failed"}
    /\ peer' = NoReq
    /\ UNCHANGED <<accounts, current_account_index, clients,
                   account_request_times, pool_hist, req, profile, queueVars>>

\* the wrapper with None for every failed fetch
EmptyOnFailureNone(kind) == "none"

\* except Exception in get_user_info (return None), get_user_reels and
\* get_user_followings (return [])
EmptyOnFailure(kind) == IF kind = "info" THEN "none" ELSE "empty"

\* the wrapper returns and get_complete_profile_data goes on: without
\* user_info it returns None, else it fetches the reels, then the followings
Finish ==
    /\ req.pc \in {"returned", "failed"}
    /\ LET v == IF req.pc = "returned" THEN req.value
                ELSE EmptyOnFailure(req.kind)
           f == IF req.pc = "failed" THEN profile.failed \cup {req.kind}
                ELSE profile.failed
       IN CASE req.kind = "info" ->
                 IF v = "none"
                 THEN /\ profile' = [profile EXCEPT !.user_info = v, !.failed = f,
                                                    !.result = "none"]
                      /\ req' = NoReq
                 ELSE /\ profile' = [profile EXCEPT !.user_info = v, !.failed = f]
                      /\ req' = NewReq("reels")
            [] req.kind = "reels" ->
                 /\ profile' = [profile EXCEPT !.reels = v, !.failed = f]
                 /\ req' = NewReq("followings")
            [] OTHER ->
                 /\ profile' = [profile EXCEPT !.followings = v, !.failed = f,
                                                !.result = "complete"]
                 /\ req' = NoReq
    /\ UNCHANGED <<accounts, current_account_index, clients,
                   account_request_times, pool_hist, peer, queueVars>>

\* time passes: the oldest request of identity a is now older than an hour
Expire(a) ==
    /\ account_request_times[a] + pool_hist.wiped[a] > 0
    /\ account_request_times' =
          [account_request_times EXCEPT
              ![a] = IF pool_hist.wiped[a] > 0 THEN @ ELSE @ - 1]
    /\ pool_hist' = [pool_hist EXCEPT
                        !.clean = FALSE, !.served = << >>,
                        !.wiped[a] = IF @ > 0 THEN @ - 1 ELSE @]
    /\ UNCHANGED <<accounts, current_account_index, clients, req, profile,
                   peer, queueVars>>

NoHist == [failed |-> {}, retried |-> FALSE, clean |-> TRUE, served |-> << >>,
           track |-> FALSE, wiped |-> [a \in 0..(MaxAccounts - 1) |-> 0]]

\* a scraper nobody uses
InitNoScraper ==
    /\ accounts = 1
    /\ current_account_index = 0
    /\ clients = {}
    /\ account_request_times = [a \in {0} |-> 0]
    /\ req = NoReq
    /\ profile = NoProfile
    /\ peer = NoReq
    /\ pool_hist = NoHist

\* ------------------------------------------------------ the criteria checker
\* the sum of field f over the reels
RECURSIVE SumOf(_, _)
SumOf(reels, f) ==
    IF reels = << >> THEN 0 ELSE Head(reels)[f] + SumOf(Tail(reels), f)

\* the followers test with > for >=
CheckFollowersStrict(followers_count, config) ==
    followers_count > config.min_followers

\* _check_followers: passed = followers_count >= min_followers
CheckFollowers(followers_count, config) ==
    followers_count >= config.min_followers

\* a view test that takes an average of 0 for no reels
CheckReelViewsOfNone(last_5_reels, config) ==
    LET avg_views == IF last_5_reels = << >> THEN 0
                     ELSE SumOf(last_5_reels, "view_count") \div Len(last_5_reels)
    IN [actual |-> avg_views, passed |-> avg_views >= config.min_avg_reel_views]

\* _check_reel_views: no reels fail; else total_views // len(last_5_reels)
\* against min_avg_reel_views
CheckReelViews(last_5_reels, config) ==
    IF last_5_reels = << >> THEN [actual |-> 0, passed |-> FALSE]
    ELSE LET avg_views == SumOf(last_5_reels, "view_count") \div Len(last_5_reels)
         IN [actual |-> avg_views,
             passed |-> avg_views >= config.min_avg_reel_views]

\* _check_engagement_rate: no reels or no followers fail; else
\* (total_engagement / len) / followers_count * 100 >= min_engagement_rate.
\* The quotient is a float: where the exact value equals the threshold the
\* computed one is the exact value or (fp = "below") the float next below it.
CheckEngagementRate(last_5_reels, followers_count, config, fp) ==
    IF last_5_reels = << >> \/ followers_count = 0 THEN FALSE
    ELSE LET total_engagement == SumOf(last_5_reels, "like_count")
                                    + SumOf(last_5_reels, "comment_count")
             scaled == total_engagement * 100
             needed == config.min_engagement_rate * Len(last_5_reels)
                            * followers_count
         IN scaled > needed \/ (scaled = needed /\ (fp = "exact" \/ scaled = 0))

\* a decision that one passing gate is enough for
AllPassedAny(followers_pass, views_pass, engagement_pass) ==
    followers_pass \/ views_pass \/ engagement_pass

\* all_passed = followers_pass and views_pass and engagement_pass
AllPassed(followers_pass, views_pass, engagement_pass) ==
    followers_pass /\ views_pass /\ engagement_pass

\* the fail reasons in the order the three checks append them
FailReasons(followers_pass, views_pass, engagement_pass) ==
    (IF followers_pass THEN << >> ELSE <<"followers">>)
        \o (IF views_pass THEN << >> ELSE <<"reel_views">>)
        \o (IF engagement_pass THEN << >> ELSE <<"engagement_rate">>)

\* check_account: (passed, criteria_data)
CheckAccount(config, followers_count, last_5_reels, fp) ==
    LET followers_pass == CheckFollowers(followers_count, config)
        views == CheckReelViews(last_5_reels, config)
        engagement_pass ==
            CheckEngagementRate(last_5_reels, followers_count, config, fp)
    IN [pass |-> AllPassed(followers_pass, views.passed, engagement_pass),
        criteria_results |->
            [followers |-> followers_pass, reel_views |-> views.passed,
             engagement_rate |-> engagement_pass],
        avg_reel_views |-> views.actual,
        fail_reasons |->
            FailReasons(followers_pass, views.passed, engagement_pass)]

\* ------------------------------------------------------------ the whole system
Init ==
    /\ seeds = EmptyBag
    /\ discovered = EmptyBag
    /\ passed = EmptyBag
    /\ concurrent_limit \in 1..MaxLimit
    /\ max_level \in 1..MaxLevel
    /\ script_config = LoadConfig
    /\ is_running = FALSE
    /\ consecutive_errors = 0
    /\ loopPc = "start"
    /\ sleep = 0
    /\ batch = {}
    /\ semaphore = 0
    /\ sem_limit = 0
    /\ errs_since_batch = 0
    /\ w = << >>
    /\ call = NoCall
    /\ InitNoScraper

Worker(r, lists) ==
    \/ Acquire(r)
    \/ MarkProcessing(r)
    \/ Fetch(r)
    \/ StoreCheck(r)
    \/ StoreCommit(r)
    \/ StatusWrite(r)
    \/ Enqueue(r, lists)
    \/ EnqueueCommit(r)
    \/ FinalWrite(r)

\* The system with the accounts a and b, each of which the administrator may
\* add as a seed, and a store that answers the loop's queries.
Next ==
    \/ LoopStart
    \/ LoopExit
    \/ LoopSelect
    \/ LoopDispatch
    \/ LoopCollect
    \/ LoopWake
    \/ \E r \in DOMAIN w : Worker(r, ListsOfTwo)
    \/ \E u \in {"a", "b"} : AddSeed(u)
    \/ \E limit \in 0..MaxLimit : SetConcurrent(limit)
    \/ Stop

Spec == Init /\ [][Next]_vars

\* The loop and its workers while rows of script_config are updated.
NextConfig ==
    \/ LoopStart
    \/ LoopSelect
    \/ LoopDispatch
    \/ LoopCollect
    \/ LoopWake
    \/ \E r \in DOMAIN w : Worker(r, ListsOfTwo)
    \/ AddSeed("a")
    \/ \E limit \in 1..MaxLimit : ConfigWrite("concurrent_limit", limit)
    \/ \E level \in 1..MaxLevel : ConfigWrite("max_level", level)

SpecConfig == Init /\ [][NextConfig]_vars

\* The crawl from the one seed a through all the accounts.
NextCrawl ==
    \/ LoopStart
    \/ LoopExit
    \/ LoopSelect
    \/ LoopDispatch
    \/ LoopCollect
    \/ LoopWake
    \/ \E r \in DOMAIN w : Worker(r, ListsOfAll)
    \/ AddSeed("a")
    \/ \E limit \in 0..MaxLimit : SetConcurrent(limit)
    \/ Stop

SpecCrawl == Init /\ [][NextCrawl]_vars

\* The system with a store that can fail under the loop's queries.
NextErrors ==
    \/ LoopStart
    \/ LoopExit
    \/ LoopSelect
    \/ LoopException
    \/ LoopDispatch
    \/ LoopCollect
    \/ LoopWake
    \/ \E r \in DOMAIN w : Worker(r, ListsOfTwo)
    \/ \E u \in {"a", "b"} : AddSeed(u)
    \/ Stop

SpecErrors == Init /\ [][NextErrors]_vars

\* The system with a process that can end at any point and be started again.
NextRestart ==
    \/ LoopStart
    \/ LoopExit
    \/ LoopSelect
    \/ LoopDispatch
    \/ LoopCollect
    \/ LoopWake
    \/ \E r \in DOMAIN w : Worker(r, ListsOfTwo)
    \/ \E u \in {"a", "b"} : AddSeed(u)
    \/ Stop
    \/ Restart

SpecRestart == Init /\ [][NextRestart]_vars

\* The loop with its while test and the query that follows it as two steps,
\* between which the bot's thread can run stop().
\* a loop that enters its body whatever the flag
LoopTestUnguarded ==
    /\ loopPc = "while"
    /\ loopPc' = "try"
    /\ UNCHANGED <<storeVars, concurrent_limit, max_level, script_config, is_running, consecutive_errors,
                   sleep, batch, semaphore, sem_limit,
                   errs_since_batch, w, call, scraperVars>>

\* while self.is_running: the flag is set and the loop body is entered
LoopTest ==
    /\ loopPc = "while" /\ is_running
    /\ loopPc' = "try"
    /\ UNCHANGED <<storeVars, concurrent_limit, max_level, script_config, is_running, consecutive_errors,
                   sleep, batch, semaphore, sem_limit,
                   errs_since_batch, w, call, scraperVars>>

\* pending = self.get_pending_usernames(self.concurrent_limit), and the
\* branch on it
LoopFetch ==
    /\ loopPc = "try"
    /\ \E pending \in GetPendingUsernames(concurrent_limit) :
        IF pending = {}
        THEN /\ loopPc' = "idle_sleep" /\ sleep' = 30
             /\ UNCHANGED batch
        ELSE /\ loopPc' = "dispatch"
             /\ batch' = pending
             /\ UNCHANGED sleep
    /\ UNCHANGED <<storeVars, concurrent_limit, max_level, script_config, is_running, consecutive_errors,
                   semaphore, sem_limit, errs_since_batch, w, call, scraperVars>>

\* the steps of the loop's thread
LoopSteps ==
    \/ LoopStart
    \/ LoopExit
    \/ LoopTest
    \/ LoopFetch
    \/ LoopDispatch
    \/ LoopCollect
    \/ LoopWake

\* the steps of the batch's worker threads
WorkerSteps == \E r \in DOMAIN w : Worker(r, ListsOfTwo)

NextStop ==
    \/ LoopSteps
    \/ WorkerSteps
    \/ \E u \in {"a", "b"} : AddSeed(u)
    \/ Stop

\* Every thread that can run does run: a sleep returns, a call of the data
\* source or of the store returns or raises.
SpecStop ==
    Init /\ [][NextStop]_vars /\ WF_vars(LoopSteps) /\ WF_vars(WorkerSteps)

\* The seeds a and b in one batch of two workers; both follow accounts among
\* c and d, which the store does not know.
ListsOfNew == FollowLists({"c", "d"})

InitRace ==
    /\ seeds = SetToBag({SeedRow("a"), SeedRow("b")})
    /\ discovered = EmptyBag
    /\ passed = EmptyBag
    /\ concurrent_limit = 2
    /\ max_level \in 1..MaxLevel
    /\ script_config = LoadConfig
    /\ is_running = FALSE
    /\ consecutive_errors = 0
    /\ loopPc = "start"
    /\ sleep = 0
    /\ batch = {}
    /\ semaphore = 0
    /\ sem_limit = 0
    /\ errs_since_batch = 0
    /\ w = << >>
    /\ call = NoCall
    /\ InitNoScraper

NextRace ==
    \/ LoopStart
    \/ LoopSelect
    \/ LoopDispatch
    \/ LoopCollect
    \/ LoopWake
    \/ \E r \in DOMAIN w : Worker(r, ListsOfNew)

SpecRace == InitRace /\ [][NextRace]_vars

\* A follow graph of four accounts: a follows c, b and c follow d.
Graph ==
    ("a" :> <<"c">>) @@ ("b" :> <<"d">>) @@ ("c" :> <<"d">>) @@ ("d" :> << >>)

\* the seed a, batches of two, and the seed b added at any moment
InitGraph ==
    /\ seeds = SetToBag({SeedRow("a")})
    /\ discovered = EmptyBag
    /\ passed = EmptyBag
    /\ concurrent_limit = 2
    /\ max_level \in 1..MaxLevel
    /\ script_config = LoadConfig
    /\ is_running = FALSE
    /\ consecutive_errors = 0
    /\ loopPc = "start"
    /\ sleep = 0
    /\ batch = {}
    /\ semaphore = 0
    /\ sem_limit = 0
    /\ errs_since_batch = 0
    /\ w = << >>
    /\ call = NoCall
    /\ InitNoScraper

NextGraph ==
    \/ LoopStart
    \/ LoopSelect
    \/ LoopDispatch
    \/ LoopCollect
    \/ LoopWake
    \/ \E r \in DOMAIN w : Worker(r, {Graph[r.username]})
    \/ AddSeed("b")

SpecGraph == InitGraph /\ [][NextGraph]_vars

\* The crawl of the same graph from the seeds it starts with (a, b or both),
\* with no seed added; the loop's thread and the workers' threads keep
\* running.
InitDrain ==
    /\ \E S \in (SUBSET {"a", "b"}) \ {{}} :
        seeds = SetToBag({SeedRow(u) : u \in S})
    /\ discovered = EmptyBag
    /\ passed = EmptyBag
    /\ concurrent_limit \in 1..MaxLimit
    /\ max_level \in 1..MaxLevel
    /\ script_config = LoadConfig
    /\ is_running = FALSE
    /\ consecutive_errors = 0
    /\ loopPc = "start"
    /\ sleep = 0
    /\ batch = {}
    /\ semaphore = 0
    /\ sem_limit = 0
    /\ errs_since_batch = 0
    /\ w = << >>
    /\ call = NoCall
    /\ InitNoScraper

NextDrain ==
    \/ LoopStart
    \/ LoopSelect
    \/ LoopDispatch
    \/ LoopCollect
    \/ LoopWake
    \/ \E r \in DOMAIN w : Worker(r, {Graph[r.username]})

SpecDrain == InitDrain /\ [][NextDrain]_vars /\ WF_vars(NextDrain)

\* ------------------------------------------- the store operations called alone
\* Stores a run can start from: the rows of earlier runs, found from an
\* account p processed then.
Range(f) == {f[k] : k \in DOMAIN f}

\* the table of the rows row[u]
TableOf(row) == SetToBag(Range(row))

SeedTables ==
    UNION {{TableOf([u \in S |-> [username |-> u, status |-> st[u]]]) :
                st \in [S -> {"pending", "checked"}]} : S \in SUBSET Handles}

DiscoveredTables ==
    UNION {{TableOf([u \in S |-> [username |-> u, status |-> x[u][1],
                                   level |-> x[u][2], parent |-> "p"]]) :
                x \in [S -> {"pending", "checked"} \X (1..(MaxLevel + 1))]} :
           S \in SUBSET Handles}

Known(u) == HasRow(seeds, u) \/ HasRow(discovered, u) \/ HasRow(passed, u)

idle == <<concurrent_limit, max_level, script_config, is_running, consecutive_errors, loopPc, sleep,
          batch, semaphore, sem_limit, errs_since_batch, w, scraperVars>>

InitIdle ==
    /\ concurrent_limit = 1
    /\ max_level \in 1..MaxLevel
    /\ script_config = LoadConfig
    /\ is_running = FALSE
    /\ consecutive_errors = 0
    /\ loopPc = "start"
    /\ sleep = 0
    /\ batch = {}
    /\ semaphore = 0
    /\ sem_limit = 0
    /\ errs_since_batch = 0
    /\ w = << >>
    /\ call = NoCall

InitQueueIdle == InitIdle /\ InitNoScraper

\* A store in which every handle has at most one row, in one table.
InitEnqueue ==
    /\ \E kind \in [Handles -> {"none", "seed", "discovered", "accepted"}] :
        /\ seeds = TableOf([u \in {v \in Handles : kind[v] = "seed"} |->
                                [username |-> u, status |-> "checked"]])
        /\ discovered = TableOf([u \in {v \in Handles : kind[v] = "discovered"} |->
                                DiscoveredRow(u, 1, "p")])
        /\ passed = TableOf([u \in {v \in Handles : kind[v] = "accepted"} |->
                                PassedRow(u, 0)])
    /\ InitQueueIdle

\* added = _add_followings_to_queue(parent, followings, level), with no other
\* session open between its queries and its commit.  The call record keeps the
\* level, the returned count, whether the commit went through, and of the store
\* before the call the number of discovered rows and which handles of the list
\* it did not know.
EnqueueCall(parent, followings, level) ==
    /\ \E rows \in {PendingRows(parent, followings, level, << >>)}, ok \in BOOLEAN :
            /\ discovered' = CommitRows(discovered, rows, ok)
            /\ call' = [op |-> "enqueue", level |-> level, added |-> Len(rows),
                        committed |-> Commits(discovered, rows, ok),
                        repeats |-> Cardinality(Range(followings)) < Len(followings),
                        fresh |-> {u \in Range(followings) : ~Known(u)},
                        count |-> BagCardinality(discovered)]
    /\ UNCHANGED <<seeds, passed, idle>>

\* the calls made for the account a, with any follow list and any level
NextEnqueue ==
    \E parent \in {"a"}, followings \in ListsOfAll,
       level \in 1..(MaxLevel + 1) :
        EnqueueCall(parent, followings, level)

SpecEnqueue == InitEnqueue /\ [][NextEnqueue]_vars

\* Any store of seeds and discovered rows, also of levels beyond max_level.
InitBatch ==
    /\ seeds \in SeedTables
    /\ discovered \in DiscoveredTables
    /\ passed = EmptyBag
    /\ InitQueueIdle

\* pending = get_pending_usernames(limit)
GetPendingCall(limit) ==
    /\ \E pending \in GetPendingUsernames(limit) :
        call' = [op |-> "get_pending", limit |-> limit, pending |-> pending]
    /\ UNCHANGED <<storeVars, idle>>

NextBatch == \E limit \in 0..(MaxLimit + 1) : GetPendingCall(limit)

SpecBatch == InitBatch /\ [][NextBatch]_vars

\* ------------------------------------------------- the scraper called alone
\* InstagramScraper(accounts): the first identity is logged in, or its login
\* fails; then profiles are fetched one after the other.
InitScraper ==
    /\ seeds = EmptyBag /\ discovered = EmptyBag /\ passed = EmptyBag
    /\ InitIdle
    /\ accounts \in 1..MaxAccounts
    /\ current_account_index = 0
    /\ account_request_times = [a \in Identities |-> 0]
    /\ req = NoReq
    /\ profile = NoProfile
    /\ peer = NoReq
    /\ \E ok \in BOOLEAN :
        /\ clients = IF ok THEN {0} ELSE {}
        /\ pool_hist = Logged(NoHist, 0, ok)

NextScraper ==
    \/ StartProfile
    \/ AcquireStep
    \/ CallSource
    \/ Finish
    \/ \E a \in Identities : Expire(a)

SpecScraper == InitScraper /\ [][NextScraper]_vars

\* The scraper used by two worker threads at once, within one hour.
NextPool ==
    \/ StartProfile
    \/ AcquireStep
    \/ CallSource
    \/ Finish
    \/ PeerStart
    \/ PeerAcquireStep
    \/ PeerCallSource
    \/ PeerFinish

SpecPool == InitScraper /\ [][NextPool]_vars

\* The two threads while the calls of the second hit the rate limit.
NextWalk ==
    \/ StartProfile
    \/ AcquireStep
    \/ CallSource
    \/ Finish
    \/ PeerStart
    \/ PeerAcquireStep
    \/ PeerCallLimited
    \/ PeerFinish

SpecWalk == InitScraper /\ [][NextWalk]_vars

\* The same scraper, with the history of the timestamps its lists have lost.
InitAccounting ==
    /\ seeds = EmptyBag /\ discovered = EmptyBag /\ passed = EmptyBag
    /\ InitIdle
    /\ accounts \in 1..MaxAccounts
    /\ current_account_index = 0
    /\ account_request_times = [a \in Identities |-> 0]
    /\ req = NoReq
    /\ profile = NoProfile
    /\ peer = NoReq
    /\ \E ok \in BOOLEAN :
        /\ clients = IF ok THEN {0} ELSE {}
        /\ pool_hist = Logged([NoHist EXCEPT !.track = TRUE], 0, ok)

SpecAccounting == InitAccounting /\ [][NextScraper]_vars

\* ------------------------------------------------- check_account called alone
\* thresholds in percent that the engagement of a few reels can meet exactly
RateThresholds == {0, 50, 100}

Configs ==
    [min_followers : 0..MaxCount, min_avg_reel_views : 0..MaxCount,
     min_engagement_rate : RateThresholds]

Reels == [view_count : 0..MaxCount, like_count : 0..1, comment_count : 0..1]

ReelLists == UNION {[1..n -> Reels] : n \in 0..MaxReels}

\* any configuration, follower count and list of reels
InitCriteria ==
    /\ seeds = EmptyBag /\ discovered = EmptyBag /\ passed = EmptyBag
    /\ concurrent_limit = 1 /\ max_level = 1 /\ script_config = LoadConfig
    /\ is_running = FALSE
    /\ consecutive_errors = 0 /\ loopPc = "start" /\ sleep = 0
    /\ batch = {} /\ semaphore = 0 /\ sem_limit = 0
    /\ errs_since_batch = 0 /\ w = << >>
    /\ InitNoScraper
    /\ \E config \in Configs, followers_count \in 0..MaxCount,
          last_5_reels \in ReelLists, fp \in {"exact", "below"} :
        call = [op |-> "args", config |-> config,
                followers_count |-> followers_count,
                last_5_reels |-> last_5_reels, fp |-> fp]

\* passed, criteria_data = check_account(...)
CheckAccountCall ==
    /\ call.op = "args"
    /\ call' = [op |-> "check_account", config |-> call.config,
                followers_count |-> call.followers_count,
                last_5_reels |-> call.last_5_reels,
                result |-> CheckAccount(call.config, call.followers_count,
                                        call.last_5_reels, call.fp)]
    /\ UNCHANGED <<storeVars, idle>>

SpecCriteria == InitCriteria /\ [][CheckAccountCall]_vars

\* ------------------------------------------- the reels fetched for the view gate
\* get_complete_profile_data asks for count = 5 reels
ReelCount == 5

\* the longest list of clips the remote side answers with
MaxClips == 6

\* play counts on both sides of a threshold of 100000
PlayCounts == {99999, 100000}

\* a clip of the remote side, most recent first in its list; one without the
\* attribute play_count is a record without that field
Clips ==
    [play_count : PlayCounts, like_count : {0}, comment_count : {0}]
        \cup [like_count : {0}, comment_count : {0}]

ClipLists == UNION {[1..n -> Clips] : n \in 0..MaxClips}

\* the reel_data entry of a clip: view_count is play_count, 0 without it
ReelData(reel) ==
    [view_count |-> IF "play_count" \in DOMAIN reel THEN reel.play_count ELSE 0,
     like_count |-> reel.like_count,
     comment_count |-> reel.comment_count]

\* a fetch that keeps every clip of the answer
GetUserReelsAll(clips, count) == [i \in 1..Len(clips) |-> ReelData(clips[i])]

\* get_user_reels: reel_data of reels[:count]
GetUserReels(clips, count) ==
    LET n == IF Len(clips) < count THEN Len(clips) ELSE count
    IN [i \in 1..n |-> ReelData(clips[i])]

\* any answer of the remote side and a threshold among the play counts
InitReels ==
    /\ seeds = EmptyBag /\ discovered = EmptyBag /\ passed = EmptyBag
    /\ concurrent_limit = 1 /\ max_level = 1 /\ script_config = LoadConfig
    /\ is_running = FALSE
    /\ consecutive_errors = 0 /\ loopPc = "start" /\ sleep = 0
    /\ batch = {} /\ semaphore = 0 /\ sem_limit = 0
    /\ errs_since_batch = 0 /\ w = << >>
    /\ InitNoScraper
    /\ \E clips \in ClipLists, min_views \in PlayCounts :
        call = [op |-> "args", clips |-> clips,
                config |-> [min_avg_reel_views |-> min_views]]

\* reels = self.get_user_reels(username, count=5); [] when the request raised
GetUserReelsCall ==
    /\ call.op = "args"
    /\ \E ok \in BOOLEAN :
        call' = [op |-> "get_user_reels", clips |-> call.clips,
                 config |-> call.config, ok |-> ok,
                 reels |-> IF ok THEN GetUserReels(call.clips, ReelCount)
                           ELSE << >>]
    /\ UNCHANGED <<storeVars, idle>>

\* avg_views, views_pass = self._check_reel_views(last_5_reels, criteria_data)
CheckReelViewsCall ==
    /\ call.op = "get_user_reels"
    /\ call' = [op |-> "_check_reel_views", clips |-> call.clips,
                config |-> call.config, ok |-> call.ok, reels |-> call.reels,
                result |-> CheckReelViews(call.reels, call.config)]
    /\ UNCHANGED <<storeVars, idle>>

NextReels == GetUserReelsCall \/ CheckReelViewsCall

SpecReels == InitReels /\ [][NextReels]_vars

\* ---------------------------------------------------- the contact extractor
\* Python's None
None == "None"

\* A text is the list of its words.  A word carries its characters (text),
\* its maximal runs of [a-zA-Z0-9_] from left to right (runs) and the index of
\* the run that follows its '@' (at, 0 without one).
Plain(s) == [kind |-> "plain", text |-> s, runs |-> <<s>>, at |-> 0]
Bare(h) == [kind |-> "bare", text |-> "t.me/" \o h,
            runs |-> <<"t", "me", h>>, at |-> 0]
Link(h) == [kind |-> "link", text |-> "https://t.me/" \o h,
            runs |-> <<"https", "t", "me", h>>, at |-> 0]
Invite(c) == [kind |-> "invite", text |-> "https://t.me/+" \o c,
              runs |-> <<"https", "t", "me", c>>, at |-> 0]
Site(host, tld) == [kind |-> "site", text |-> "https://" \o host \o "." \o tld,
                    runs |-> <<"https", host, tld>>, at |-> 0]
Email(local, label, tld) ==
    [kind |-> "email", text |-> local \o "@" \o label \o "." \o tld,
     runs |-> <<local, label, tld>>, at |-> 2]
Mention(h) == [kind |-> "mention", text |-> "@" \o h, runs |-> <<h>>, at |-> 1]
Social(host, tld, path) ==
    [kind |-> "social",
     text |-> "https://" \o host \o "." \o tld \o "/" \o path,
     runs |-> <<"https", host, tld, path>>, at |-> 0]

\* an external_url that is None or empty
NoUrl == [kind |-> "none", text |-> "", runs |-> << >>, at |-> 0]

\* the list without the words whose characters came before
RECURSIVE Unique(_, _)
Unique(words, seen) ==
    IF words = << >> THEN << >>
    ELSE IF Head(words).text \in seen THEN Unique(Tail(words), seen)
    ELSE <<Head(words)>> \o Unique(Tail(words), seen \cup {Head(words).text})

\* _combine_text_sources: ' '.join of the bio and the external url
CombineTextSources(bio, external_url) ==
    IF external_url = NoUrl THEN bio ELSE Append(bio, external_url)

\* email_pattern matches local@label.tld
IsEmail(word) == word.kind = "email"

\* _is_invalid_email: the address holds one of the invalid patterns
IsInvalidEmail(word) ==
    \/ word.runs[2] \o "." \o word.runs[3] \in
          {"example.com", "test.com", "yourdomain.com", "yoursite.com"}
    \/ word.runs[1] \in {"noreply", "no-reply"}

\* _extract_emails: the matches that are not invalid, each once
ExtractEmails(text) ==
    LET Valid(word) == IsEmail(word) /\ ~IsInvalidEmail(word)
    IN Unique(SelectSeq(text, Valid), {})

\* url_pattern matches from http:// or https:// to the next space
IsUrl(word) == word.kind \in {"link", "invite", "site", "social"}

\* _extract_urls: the matches, each once
ExtractUrls(text) == Unique(SelectSeq(text, IsUrl), {})

\* 'https://t.' in url.lower()
IsTelegramUrl(word) == word.kind \in {"link", "invite"}

\* [a-zA-Z0-9_]{5,32} matches at the start of run s (no run of the words is
\* longer than 32)
LongRun(s) == Len(s) >= MinUsernameLen

\* the first run of the words that [a-zA-Z0-9_]{5,32} matches, or None
RECURSIVE FirstLongRun(_)
FirstLongRun(words) ==
    IF words = << >> THEN None
    ELSE LET long == SelectSeq(Head(words).runs, LongRun)
         IN IF long # << >> THEN long[1] ELSE FirstLongRun(Tail(words))

\* telegram_patterns[0].search(text): https://t\.me/[^\s]+, group(0)
SearchLink(text) ==
    LET hit == SelectSeq(text, IsTelegramUrl)
    IN IF hit = << >> THEN None ELSE hit[1].text

\* telegram_patterns[1].search(text): @([a-zA-Z0-9_]{5,32}), group(1): the run
\* behind the first '@' that has 5 characters or more behind it
SearchMention(text) ==
    LET Hit(word) == word.at > 0 /\ LongRun(word.runs[word.at])
        hit == SelectSeq(text, Hit)
    IN IF hit = << >> THEN None ELSE hit[1].runs[hit[1].at]

\* telegram_patterns[2].search(text): telegram.*?[@]?([a-zA-Z0-9_]{5,32}),
\* group(1): the first run of 5 characters or more behind the first "telegram"
RECURSIVE SearchKeyword(_)
SearchKeyword(text) ==
    IF text = << >> THEN None
    ELSE IF Head(text).text = "telegram" THEN FirstLongRun(Tail(text))
    ELSE SearchKeyword(Tail(text))

\* 5 <= len(username) <= 32
UsernameLenOk(username) ==
    MinUsernameLen <= Len(username) /\ Len(username) <= MaxUsernameLen

\* the for-loop over telegram_patterns: the first match of acceptable length
FirstUsername(matches) ==
    LET Ok(m) == m # None /\ UsernameLenOk(m)
        ok == SelectSeq(matches, Ok)
    IN IF ok = << >> THEN None ELSE ok[1]

\* _extract_telegram: the first telegram url gives link and username; without
\* a username from it the three text patterns are tried in order and a link
\* is made of the username
ExtractTelegram(text, urls) ==
    LET tme == SelectSeq(urls, IsTelegramUrl)
        link == IF tme = << >> THEN None ELSE tme[1].text
        username == IF tme # << >> /\ tme[1].kind = "link"
                    THEN tme[1].runs[4] ELSE None
        found == FirstUsername(<<SearchLink(text), SearchMention(text),
                                 SearchKeyword(text)>>)
    IN IF username # None \/ found = None
       THEN [link |-> link, username |-> username]
       ELSE [link |-> IF link = None THEN "https://t.me/" \o found ELSE link,
             username |-> found]

\* 't.me' in url_lower or 'wa.me' in url_lower or 'whatsapp' in url_lower
IsMessagingUrl(word) == word.kind \in {"link", "invite"}

\* self.social_domains, in the order of the dict
SocialDomains ==
    <<[platform |-> "youtube", domains |-> {"youtube.com", "youtu.be"}],
      [platform |-> "twitter", domains |-> {"twitter.com", "x.com"}],
      [platform |-> "facebook", domains |-> {"facebook.com", "fb.com", "fb.me"}],
      [platform |-> "linkedin", domains |-> {"linkedin.com"}],
      [platform |-> "tiktok", domains |-> {"tiktok.com"}],
      [platform |-> "snapchat", domains |-> {"snapchat.com"}],
      [platform |-> "pinterest", domains |-> {"pinterest.com"}],
      [platform |-> "twitch", domains |-> {"twitch.tv"}]>>

\* urlparse(url.lower()).netloc.replace('www.', '') of a url word
DomainOf(word) == word.runs[2] \o "." \o word.runs[3]

\* the first platform with any(d in domain for d in domains), or None (the
\* domain of a word is a domain of the table or holds none of them)
PlatformOf(word) ==
    LET Hit(entry) == DomainOf(word) \in entry.domains
        hit == SelectSeq(SocialDomains, Hit)
    IN IF hit = << >> THEN None ELSE hit[1].platform

\* _categorize_social_links: per platform the first url of it; the platforms
\* in seen have their url
RECURSIVE CategorizeSocialLinks(_, _)
CategorizeSocialLinks(urls, seen) ==
    IF urls = << >> THEN << >>
    ELSE LET platform == PlatformOf(Head(urls))
         IN IF platform = None \/ platform \in seen
            THEN CategorizeSocialLinks(Tail(urls), seen)
            ELSE <<[platform |-> platform, url |-> Head(urls)]>>
                    \o CategorizeSocialLinks(Tail(urls), seen \cup {platform})

\* _extract_website: the external url unless its domain is of a platform or
\* of a messaging service, else the first link that is neither a value of
\* social_links nor a messaging link
ExtractWebsite(all_links, social_links, external_url) ==
    LET is_social == PlatformOf(external_url) # None
                        \/ IsMessagingUrl(external_url)
        social_urls_lower == {social_links[i].url.text :
                                 i \in DOMAIN social_links}
        Kept(word) == word.text \notin social_urls_lower
                         /\ ~IsMessagingUrl(word)
        sites == SelectSeq(all_links, Kept)
    IN IF external_url # NoUrl /\ ~is_social THEN external_url.text
       ELSE IF sites = << >> THEN None ELSE sites[1].text

\* extract_all (no word holds a digit: phones and whatsapp stay empty)
ExtractAll(bio, external_url) ==
    LET all_text == CombineTextSources(bio, external_url)
        emails == ExtractEmails(all_text)
        all_links == ExtractUrls(all_text)
        telegram_data == ExtractTelegram(all_text, all_links)
    IN [email |-> IF emails = << >> THEN None ELSE emails[1].text,
        telegram |-> telegram_data.link,
        telegram_username |-> telegram_data.username,
        website |-> ExtractWebsite(all_links,
                                   CategorizeSocialLinks(all_links, {}),
                                   external_url)]

\* --------------------------------------------------- extract_all called alone
Words ==
    {Plain("DM"), Plain("telegram"),
     Bare("jane"), Bare("janedoe"), Link("janedoe"), Invite("invite"),
     Mention("jane"), Mention("janedoe"),
     Email("jane", "example", "com"), Email("jane", "shop", "io"),
     Email("jane", "mailbox", "org"),
     Site("mystore", "com")}

Bios == UNION {[1..n -> Words] : n \in 0..MaxTokens}

ExternalUrls == {NoUrl, Site("mystore", "com"), Link("janedoe")}

\* any bio and external url
InitExtract ==
    /\ seeds = EmptyBag /\ discovered = EmptyBag /\ passed = EmptyBag
    /\ concurrent_limit = 1 /\ max_level = 1 /\ script_config = LoadConfig
    /\ is_running = FALSE
    /\ consecutive_errors = 0 /\ loopPc = "start" /\ sleep = 0
    /\ batch = {} /\ semaphore = 0 /\ sem_limit = 0
    /\ errs_since_batch = 0 /\ w = << >>
    /\ InitNoScraper
    /\ \E bio \in Bios, external_url \in ExternalUrls :
        call = [op |-> "text", bio |-> bio, external_url |-> external_url]

\* contacts = extract_all(bio, external_url)
ExtractAllCall ==
    /\ call.op = "text"
    /\ call' = [op |-> "extract_all", bio |-> call.bio,
                external_url |-> call.external_url,
                contacts |-> ExtractAll(call.bio, call.external_url)]
    /\ UNCHANGED <<storeVars, idle>>

SpecExtract == InitExtract /\ [][ExtractAllCall]_vars

\* bios and external urls with links of the social platforms
SocialWords ==
    {Plain("DM"), Link("janedoe"), Site("mystore", "com"),
     Social("youtube", "com", "jane"), Social("youtu", "be", "clip"),
     Social("x", "com", "jane")}

SocialBios == UNION {[1..n -> SocialWords] : n \in 0..MaxTokens}

SocialExternalUrls ==
    {NoUrl, Site("mystore", "com"), Link("janedoe"),
     Social("youtube", "com", "jane")}

InitWebsite ==
    /\ seeds = EmptyBag /\ discovered = EmptyBag /\ passed = EmptyBag
    /\ concurrent_limit = 1 /\ max_level = 1 /\ script_config = LoadConfig
    /\ is_running = FALSE
    /\ consecutive_errors = 0 /\ loopPc = "start" /\ sleep = 0
    /\ batch = {} /\ semaphore = 0 /\ sem_limit = 0
    /\ errs_since_batch = 0 /\ w = << >>
    /\ InitNoScraper
    /\ \E bio \in SocialBios, external_url \in SocialExternalUrls :
        call = [op |-> "text", bio |-> bio, external_url |-> external_url]

SpecWebsite == InitWebsite /\ [][ExtractAllCall]_vars

\* ------------------------------------------------------------ the properties
\* the record sets that hold a row of handle u
SetsHolding(u) ==
    (IF HasRow(seeds, u) THEN {"Seed"} ELSE {})
        \cup (IF HasRow(discovered, u) THEN {"Discovered"} ELSE {})
        \cup (IF HasRow(passed, u) THEN {"Accepted"} ELSE {})

\* the status of the one row of u
StatusOf(table, u) == (CHOOSE r \in RowsOf(table, u) : TRUE).status

\* C1: starting from a store in which no handle is in two record sets, after
\* any sequence of _add_followings_to_queue calls no handle is in more than one
\* of Seed, Discovered and Accepted and no handle has two Discovered rows,
\* whatever the lists repeat or already hold.
C1_EnqueueKeepsHandlesUnique ==
    \A u \in Handles :
        /\ Cardinality(SetsHolding(u)) <= 1
        /\ CountOf(discovered, u) <= 1

\* a committed call whose list names one new handle twice, on a store that has
\* seeds and accepted handles
C1_RepeatedHandleEnqueued ==
    /\ call.op = "enqueue"
    /\ call.repeats /\ call.committed /\ call.added = 1
    /\ seeds # EmptyBag /\ passed # EmptyBag

C2_HandleInExactlyOneSet ==
    \A u \in Handles : Known(u) => Cardinality(SetsHolding(u)) = 1

\* C2, amended: each handle has at most one row in each of Seed, Discovered
\* and Accepted, and an accepted handle keeps the Seed or Discovered row it was
\* processed from; so a handle can be in two or in all three of the sets.
C2_OneRowPerSet ==
    \A u \in Handles :
        /\ CountOf(seeds, u) <= 1
        /\ CountOf(discovered, u) <= 1
        /\ CountOf(passed, u) <= 1
        /\ HasRow(passed, u) => HasRow(seeds, u) \/ HasRow(discovered, u)

\* a handle that is a seed, discovered and accepted at once
C2_HandleInAllThreeSets ==
    \E u \in Handles :
        HasRow(seeds, u) /\ HasRow(discovered, u) /\ HasRow(passed, u)

\* C3: every Discovered row has 1 <= level <= max_level.
C3_LevelWithinCap ==
    \A r \in Rows(discovered) : 1 <= r.level /\ r.level <= max_level

\* a handle at the cap has been processed to the end, while an account is
\* still unknown to the store
C3_ProcessedAtCap ==
    /\ \E r \in Rows(discovered) : r.level = max_level /\ r.status = "checked"
    /\ \E u \in Handles : ~Known(u)

\* the worker has been through _store_passed_influencer and is still running
PastStore(r) ==
    /\ w[r].result.passed
    /\ w[r].pc \in {"status", "enqueue", "enqueue_commit", "final"}

\* C5: whether two runs of _store_passed_influencer for one handle follow each
\* other or overlap, the handle has one Accepted row, and the row a run has
\* written is never changed or removed by a later one.
C5_AcceptedWrittenOnce ==
    [][\A u \in Handles :
          /\ CountOf(passed', u) <= 1
          /\ HasRow(passed, u) => RowsOf(passed', u) = RowsOf(passed, u)]_vars

\* two workers of one batch have both stored the same accepted handle
C5_StoredTwice ==
    \E r, q \in DOMAIN w :
        /\ r # q /\ r.username = q.username
        /\ PastStore(r) /\ PastStore(q)
        /\ HasRow(passed, r.username)

\* a status at the end of Pending -> Processing -> {Checked, Pass, Fail}
Final(s) == s \in {"checked", "pass", "fail"}

\* C6, its last clause: once a Seed or Discovered row has reached Checked,
\* Pass or Fail, no later step of the orchestrator changes its status.
C6_FinalStatusKept ==
    [][\A u \in Handles :
          /\ (HasRow(seeds, u) /\ Final(StatusOf(seeds, u))) =>
                StatusOf(seeds', u) = StatusOf(seeds, u)
          /\ (HasRow(discovered, u) /\ Final(StatusOf(discovered, u))) =>
                StatusOf(discovered', u) = StatusOf(discovered, u)]_vars

\* C7: the workers inside process_username are never more than the limit the
\* batch's semaphore was created with, whatever /set_concurrent does meanwhile.
C7_BoundedWorkers ==
    /\ Cardinality({r \in DOMAIN w : Executing(r)}) <= sem_limit
    /\ semaphore >= 0

\* the limit was raised after the dispatch, and a task still waits for a permit
C7_WaitsDespiteRaisedLimit ==
    /\ loopPc = "running"
    /\ concurrent_limit > sem_limit
    /\ semaphore = 0
    /\ \E r \in DOMAIN w : w[r].pc = "wait"

\* the step ends the worker r
Ends(r) == w[r].pc # "done" /\ r \in DOMAIN w' /\ w'[r].pc = "done"

\* the end of one worker leaves the others, the loop and its counter alone, and
\* its result has an error exactly when it has no success
Confined(r) ==
    /\ (w'[r].result.error # "none") <=> ~w'[r].result.success
    /\ \A q \in DOMAIN w \ {r} : w'[q] = w[q]
    /\ consecutive_errors' = consecutive_errors
    /\ loopPc' = "running"

\* C8 as stated: a worker in which the fetch returns nothing, or the evaluator,
\* the extractor or a store write raises, ends with an error outcome; the
\* other handles of the batch go on, and the loop's counter is not touched.
C8_EveryFailureIsAnErrorOutcome ==
    [][\A r \in DOMAIN w :
          Ends(r) =>
            /\ Confined(r)
            /\ w'[r].logged => w'[r].result.error # "none"]_vars

\* C8, amended: a worker in which the fetch returns nothing, or the evaluator,
\* the extractor or one of process_username's own status writes raises, ends
\* with an error and no success; a worker that ends without one has success
\* (a write that raised inside _store_passed_influencer or
\* _add_followings_to_queue was logged there and did not fail it).  The end of
\* a worker changes no other worker and not the loop's counter.
C8_WorkerFailureConfined ==
    [][\A r \in DOMAIN w : Ends(r) => Confined(r)]_vars

\* after a loop exception one worker of the batch has failed and another has
\* succeeded
C8_OneFailedOneSucceeded ==
    /\ loopPc = "running"
    /\ consecutive_errors > 0
    /\ \E r, q \in DOMAIN w :
        /\ w[r].pc = "done" /\ w[r].result.error # "none"
        /\ w[q].pc = "done" /\ w[q].result.success

C10_BatchSelection ==
    call.op = "get_pending" =>
        LET taken == call.pending
            refs == {r \in taken : r.type = "discovered"}
            pendingSeeds == {r \in Rows(seeds) : r.status = "pending"}
            pendingFound == {r \in Rows(discovered) : r.status = "pending"}
        IN /\ Cardinality(taken) <= call.limit
           /\ \A r \in taken \ refs :
                /\ r.type = "seed" /\ r.level = 0
                /\ \E p \in pendingSeeds : p.username = r.username
           /\ Cardinality(taken \ refs)
                = Min(call.limit, Cardinality(pendingSeeds))
           /\ refs # {} => Cardinality(pendingSeeds) < call.limit
           /\ \A r \in refs :
                /\ r.level <= max_level
                /\ \E p \in pendingFound :
                      p.username = r.username /\ p.level = r.level
                /\ \A p \in pendingFound :
                      p.level < r.level =>
                         \E q \in refs : q.username = p.username

\* a seed and a discovered handle of level 1 are returned while a pending
\* handle of level 2, within the cap, is left out
C10_ShallowerTaken ==
    /\ call.op = "get_pending"
    /\ \E r \in call.pending : r.type = "seed"
    /\ \E r \in call.pending : r.type = "discovered" /\ r.level = 1
    /\ \E p \in Rows(discovered) :
          /\ p.status = "pending" /\ p.level = 2 /\ p.level <= max_level
          /\ \A r \in call.pending : r.username # p.username

\* no worker is inside process_username for the row of u in the table of type
Abandoned(u, type) ==
    \A r \in DOMAIN w : (r.username = u /\ r.type = type) => ~Executing(r)

\* C11: a row left in Processing, with no worker running for it (the process
\* died, or the worker ended without being able to write a status), is never
\* in a batch get_pending_usernames returns and keeps its status through every
\* later step, iteration and restart of the loop.
C11_ProcessingStaysStuck ==
    [][/\ \A u \in Handles :
            /\ (HasRow(seeds, u) /\ StatusOf(seeds, u) = "processing"
                    /\ Abandoned(u, "seed")) =>
                  /\ StatusOf(seeds', u) = "processing"
                  /\ Abandoned(u, "seed")'
            /\ (HasRow(discovered, u) /\ StatusOf(discovered, u) = "processing"
                    /\ Abandoned(u, "discovered")) =>
                  /\ StatusOf(discovered', u) = "processing"
                  /\ Abandoned(u, "discovered")'
       /\ batch' # batch =>
            \A r \in batch' :
                IF r.type = "seed"
                THEN StatusOf(seeds, r.username) = "pending"
                ELSE StatusOf(discovered, r.username) = "pending"]_vars

\* after a restart a later batch runs while a seed row is still stuck in
\* Processing
C11_BatchRunsPastStuckRow ==
    /\ loopPc = "running" /\ w # << >>
    /\ \E u \in Handles :
        /\ HasRow(seeds, u) /\ StatusOf(seeds, u) = "processing"
        /\ \A r \in DOMAIN w : r.username # u
        /\ \E q \in DOMAIN w : w[q].pc = "done" /\ w[q].result.success

\* C12: in a run in which every login and every call succeeds and no request
\* ages out, the k-th call is served by identity ((k - 1) div cap) mod N:
\* the first cap calls by the starting identity, the next by another one; and
\* _get_current_client raises only when all N identities have cap requests in
\* the hour, after N x cap served calls.
C12_RotationUnderLoad ==
    pool_hist.clean =>
        LET served == pool_hist.served
        IN /\ \A k \in 1..Len(served) :
                served[k] = ((k - 1) \div MaxRequestsPerHour) % accounts
           /\ Len(served) <= accounts * MaxRequestsPerHour
           /\ req.exhausted =>
                /\ Len(served) = accounts * MaxRequestsPerHour
                /\ \A a \in Identities :
                      account_request_times[a] >= MaxRequestsPerHour

\* with more than one identity, a fetch has failed because all are saturated
C12_AllSaturated ==
    /\ pool_hist.clean /\ req.exhausted
    /\ accounts > 1
    /\ req.pc = "failed"

\* C13 as stated: no login is attempted again on an identity whose login has
\* failed.
C13_FailedIdentityExcluded == ~pool_hist.retried

\* the loop turns a request in flight has left at most
Budget(r) ==
    IF r.pc \notin {"acquire", "call"} THEN 0
    ELSE (3 - r.retries) * (accounts + 2) - r.attempts
            - (IF r.pc = "call" THEN 1 ELSE 0)

\* C14: one _safe_request calls the data source at most 3 times, returns at
\* the first call that succeeds, raises after 3 failed attempts whatever the
\* errors were, and always ends: every step of it uses up a budget that is
\* positive while the request is in flight.
C14_RetriesBoundedAndEnds ==
    [][/\ req'.calls <= 3 /\ req'.retries <= 3
       /\ req'.calls <= req'.retries + 1
       /\ req'.pc = "returned" => (req'.calls >= 1 /\ req'.retries < 3)
       /\ (req'.pc = "failed") <=> (req'.retries = 3)
       /\ req'.calls > req.calls => req.pc = "call"
       /\ req.pc \in {"acquire", "call"} =>
            /\ Budget(req) > 0
            /\ req' # req => Budget(req') < Budget(req)]_vars

\* a fetch has failed after three calls of the data source
C14_FailedAfterThreeCalls == req.pc = "failed" /\ req.calls = 3

\* C15 as stated: after the data source has answered NotFound for a profile the
\* fetch is not tried again.
C15_NotFoundNotRetried ==
    req.not_found => (req.pc \notin {"acquire", "call"} /\ req.calls = 1)

\* C16: get_user_followings returns a list, the empty one when every attempt of
\* its fetch failed or the source has no follow data, and
\* get_complete_profile_data returns the profile whenever user_info was
\* fetched.
C16_FollowingsNeverFail ==
    /\ profile.followings \in {"unset", "empty", "list"}
    /\ profile.reels \in {"unset", "empty", "list"}
    /\ "followings" \in profile.failed =>
          profile.followings = "empty" /\ profile.result = "complete"
    /\ (profile.result = "none") <=> ("info" \in profile.failed)
    /\ profile.result = "complete" =>
          profile.user_info = "data" /\ profile.followings # "unset"

\* a profile is complete although the fetch of its followings failed
C16_CompleteWithoutFollowings ==
    /\ profile.result = "complete"
    /\ "followings" \in profile.failed
    /\ profile.followings = "empty"

\* the three gates check_account has recorded
Gates == call.result.criteria_results

\* the recorded fail reasons
Reasons == {call.result.fail_reasons[k] : k \in DOMAIN call.result.fail_reasons}

\* C17: check_account accepts exactly when the followers gate, the view gate
\* and the engagement gate have all passed; when a gate has failed the result
\* is false and a fail reason is recorded for each failed gate.
C17_AcceptedIffAllGatesPass ==
    call.op = "check_account" =>
        /\ call.result.pass <=>
              (Gates.followers /\ Gates.reel_views /\ Gates.engagement_rate)
        /\ ~call.result.pass => Len(call.result.fail_reasons) >= 1
        /\ \A g \in {"followers", "reel_views", "engagement_rate"} :
              (g \in Reasons) <=> ~Gates[g]

\* an account rejected by the engagement gate alone
C17_OnlyEngagementFailed ==
    /\ call.op = "check_account"
    /\ ~call.result.pass
    /\ Gates.followers /\ Gates.reel_views
    /\ call.result.fail_reasons = <<"engagement_rate">>

\* C18: where the view gate and the engagement gate pass, check_account
\* accepts exactly the follower counts that are at least min_followers: one
\* less than min_followers is rejected, min_followers itself accepted.
C18_FollowersThresholdInclusive ==
    (/\ call.op = "check_account"
     /\ Gates.reel_views /\ Gates.engagement_rate) =>
        /\ call.result.pass <=>
              call.followers_count >= call.config.min_followers
        /\ call.followers_count = call.config.min_followers => call.result.pass
        /\ call.followers_count = call.config.min_followers - 1 =>
              ~call.result.pass /\ "followers" \in Reasons

\* an account of exactly min_followers followers has been accepted
C18_AcceptedAtThreshold ==
    /\ call.op = "check_account"
    /\ call.config.min_followers > 0
    /\ call.followers_count = call.config.min_followers
    /\ call.result.pass

\* C19: without reels the view gate and the engagement gate fail and the
\* account is rejected, whatever the follower count and the thresholds, zero
\* thresholds included; without followers the engagement gate fails whatever
\* the reels.
C19_NoReelsOrNoFollowersRejected ==
    call.op = "check_account" =>
        /\ call.last_5_reels = << >> =>
              /\ ~call.result.pass
              /\ ~Gates.reel_views /\ ~Gates.engagement_rate
        /\ call.followers_count = 0 =>
              ~call.result.pass /\ ~Gates.engagement_rate

\* no reels, thresholds all zero, some followers: rejected
C19_NoReelsZeroThresholds ==
    /\ call.op = "check_account"
    /\ call.last_5_reels = << >>
    /\ call.followers_count > 0
    /\ call.config = [min_followers |-> 0, min_avg_reel_views |-> 0,
                      min_engagement_rate |-> 0]
    /\ ~call.result.pass
    /\ Gates.followers

\* the bio `DM via t.me/janedoe or jane@example.com, shop: https://mystore.com`
\* without the words no pattern matches
ExampleBio ==
    <<Bare("janedoe"), Email("jane", "example", "com"), Site("mystore", "com")>>

\* C20 as stated: the example bio without external link yields the handle
\* janedoe, the link https://t.me/janedoe, no email and the website
\* https://mystore.com.
C20_ExampleBioContacts ==
    (/\ call.op = "extract_all"
     /\ call.external_url = NoUrl
     /\ call.bio = ExampleBio) =>
        call.contacts = [email |-> None, telegram |-> "https://t.me/janedoe",
                         telegram_username |-> "janedoe",
                         website |-> "https://mystore.com"]

\* stop() has been called on a loop that had started
StopSeen == ~is_running /\ loopPc # "start"

\* the step fetches a batch
Fetches == loopPc = "try" /\ loopPc' # "try"

\* C21, its second clause as stated: after stop() the loop fetches no batch.
C21_NoFetchAfterStop == [][StopSeen => ~Fetches]_vars

\* C21, amended: stop() changes nothing but the flag, and the loop leaves a
\* batch only when every worker of it has returned; after stop() no iteration
\* begins (the while test sends the loop to its end), so a batch is fetched
\* after it only by an iteration that had passed the test before; and the
\* loop ends.
C21_StopIsCooperative ==
    /\ [][/\ (is_running /\ ~is_running') =>
                (w' = w /\ loopPc' = loopPc /\ batch' = batch
                    /\ storeVars' = storeVars)
          /\ (loopPc = "running" /\ loopPc' # "running") =>
                \A r \in DOMAIN w : w[r].pc = "done"
          /\ (StopSeen /\ loopPc = "while" /\ loopPc' # "while") =>
                loopPc' = "stopped"
          /\ (loopPc # "try" /\ loopPc' = "try") =>
                (is_running /\ loopPc = "while")]_vars
    /\ (StopSeen ~> loopPc = "stopped")

\* after stop() one worker is before its last write and another has not
\* entered yet
C21_StoppedMidBatch ==
    /\ StopSeen /\ loopPc = "running"
    /\ \E r, q \in DOMAIN w : w[r].pc = "final" /\ w[q].pc = "wait"

\* the status of the row the batch entry r was selected from
RowStatus(r) ==
    IF r.type = "seed" THEN StatusOf(seeds, r.username)
    ELSE StatusOf(discovered, r.username)

\* the worker has the calls of the data source behind it
PastFetch(pc) == pc \notin {"wait", "mark", "fetch"}

\* C22: a worker is at its calls of the data source only with its row
\* committed as Processing; a step that writes Checked, Pass or Fail to the
\* row leaves the worker behind those calls, and it never comes back to them.
C22_StatusWritesAroundFetch ==
    [][/\ \A r \in DOMAIN w' :
            w'[r].pc = "fetch" => RowStatus(r)' = "processing"
       /\ \A r \in DOMAIN w :
            r \in DOMAIN w' =>
              /\ (Final(RowStatus(r)') /\ RowStatus(r)' # RowStatus(r)
                    /\ w'[r] # w[r]) => PastFetch(w'[r].pc)
              /\ PastFetch(w[r].pc) => PastFetch(w'[r].pc)]_vars

\* one worker is at the data source with its row Processing, another has
\* returned with its discovered row Checked
C22_FetchingWhileOtherChecked ==
    \E r, q \in DOMAIN w :
        /\ w[r].pc = "fetch" /\ RowStatus(r) = "processing"
        /\ q.type = "discovered"
        /\ w[q].pc = "done" /\ w[q].result.success /\ RowStatus(q) = "checked"

\* the requests of the last hour that identity a has served
Trailing(a) == account_request_times[a] + pool_hist.wiped[a]

\* C23 as stated: _get_current_client never returns an identity that has
\* served max_requests_per_hour requests or more in the last hour.
C23_ReturnedIdentityUnderCap ==
    req.pc = "call" => Trailing(req.user) < MaxRequestsPerHour

\* C24 as stated: whatever the interleaving of the workers, no identity has
\* more than max_requests_per_hour requests of the last hour on record.
C24_RecordedWithinCap ==
    \A a \in Identities : account_request_times[a] <= MaxRequestsPerHour

\* the step is a call of the data source that raised
CallFailed == req.pc = "call" /\ req'.retries = req.retries + 1

LosesRace(r) ==
    /\ w[r].pc = "enqueue_commit" /\ w'[r].pc = "final"
    /\ UniqueViolation(discovered, w[r].rows)

\* C26 as stated: when a worker's enqueue meets a handle that another worker
\* of the batch has inserted meanwhile, the handle keeps its one Discovered
\* row, the worker goes on, and every other new handle of its list is
\* inserted.
C26_OnlyLosingInsertDropped ==
    [][\A r \in DOMAIN w :
          LosesRace(r) =>
            \A k \in DOMAIN w[r].rows :
                CountOf(discovered', w[r].rows[k].username) = 1]_vars

\* the play count of the i-th clip of the answer, 0 without the attribute
ViewsAt(clips, i) ==
    IF "play_count" \in DOMAIN clips[i] THEN clips[i].play_count ELSE 0

RECURSIVE ViewsOfFirst(_, _)
ViewsOfFirst(clips, n) ==
    IF n = 0 THEN 0 ELSE ViewsOfFirst(clips, n - 1) + ViewsAt(clips, n)

\* the number of clips the gate uses
Used(clips) == IF Len(clips) < ReelCount THEN Len(clips) ELSE ReelCount

\* C27: after a successful fetch the view gate's average is the integer floor
\* of (views of the first min(n, 5) clips) / min(n, 5), whatever follows the
\* fifth clip, and the gate passes exactly when that floor reaches
\* min_avg_reel_views.
C27_FloorOfFirstFive ==
    (call.op = "_check_reel_views" /\ call.ok /\ call.clips # << >>) =>
        LET n == Used(call.clips)
            total == ViewsOfFirst(call.clips, n)
            avg == call.result.actual
        IN /\ avg * n <= total
           /\ total < (avg + 1) * n
           /\ call.result.passed <=> (avg >= call.config.min_avg_reel_views)

\* five clips of average 99999.8 followed by a sixth without plays: the
\* average is 99999, below 100000, and not the 83333 of all six
C27_SixClipsAverageJustBelow ==
    /\ call.op = "_check_reel_views" /\ call.ok
    /\ Len(call.clips) = 6
    /\ ViewsOfFirst(call.clips, 5) = 499999
    /\ ViewsAt(call.clips, 6) = 0
    /\ call.config.min_avg_reel_views = 100000
    /\ call.result = [actual |-> 99999, passed |-> FALSE]

\* the url words whose text is the website of the contacts
WebsiteWords ==
    {word \in Range(CombineTextSources(call.bio, call.external_url)) :
        IsUrl(word) /\ word.text = call.contacts.website}

\* C28 as stated: the website of the contacts is never a link whose domain is
\* of the social-platform table or of a messaging service.
C28_WebsiteNeverSocial ==
    call.op = "extract_all" =>
        \A word \in WebsiteWords :
            PlatformOf(word) = None /\ ~IsMessagingUrl(word)

\* the loop, at the top of an iteration, fetches its batch in this step
FetchesBatch == loopPc = "while" /\ loopPc' \in {"dispatch", "idle_sleep"}

\* C29 as stated: the iteration that fetches a batch works with the values of
\* concurrent_limit and max_level that the table script_config holds at that
\* moment.
C29_ConfigReloadedEachIteration ==
    [][FetchesBatch => (concurrent_limit' = script_config'.concurrent_limit
                           /\ max_level' = script_config'.max_level)]_vars

\* the loop finds nothing pending in this step
FindsEmptyBatch == loopPc = "while" /\ loopPc' = "idle_sleep"

\* C30: the iteration that finds an empty batch goes to a sleep of 30 seconds
\* and from it back to the top of the loop; it leaves is_running set, every
\* row of the three tables as it was and consecutive_errors at its value.
C30_EmptyBatchChangesNothing ==
    [][/\ FindsEmptyBatch =>
            /\ sleep' = 30
            /\ is_running /\ is_running'
            /\ seeds' = seeds /\ discovered' = discovered /\ passed' = passed
            /\ consecutive_errors' = consecutive_errors
            /\ batch' = batch /\ w' = w
       /\ (loopPc = "idle_sleep" /\ loopPc' # "idle_sleep") => loopPc' = "while"
      ]_vars

\* the loop sleeps after an empty poll that followed an error
C30_IdleAfterAnError ==
    /\ loopPc = "idle_sleep" /\ sleep = 30
    /\ is_running
    /\ consecutive_errors > 0

\* the worker r reads the follow-list of its handle in this step
ReadsFollowList(r) == w[r].pc = "enqueue" /\ w'[r].pc = "enqueue_commit"

\* C31 as stated: a Discovered record's level is 1 + the smallest level among
\* the processed handles whose follow-list contains it; so when a worker
\* reads the follow-list of its handle, no handle of the list has a
\* Discovered record of a level above the worker's level + 1.
C31_LevelIsBfsDepth ==
    [][\A r \in DOMAIN w :
          ReadsFollowList(r) =>
            \A row \in Rows(discovered) :
                row.username \in Range(Graph[r.username])
                    => row.level <= r.level + 1]_vars

\* the worker r has returned from a run in which the fetch and the evaluation
\* of a discovered handle succeeded
FinishedDiscovered(r) ==
    /\ w[r].pc = "done" /\ w[r].result.success
    /\ r.type = "discovered"
    /\ HasRow(discovered, r.username)

\* C32 as stated: after a worker has finished a discovered handle whose fetch
\* and evaluation succeeded, the row's status is pass if check_account
\* accepted it and fail if it rejected it (the statuses get_stats counts as
\* passed and failed).
C32_FinishedStatusIsVerdict ==
    \A r \in DOMAIN w :
        FinishedDiscovered(r) =>
            StatusOf(discovered, r.username)
                = IF w[r].result.passed THEN "pass" ELSE "fail"

\* time passes in this step: no request moves
TimePasses == req' = req /\ peer' = peer /\ clients' = clients

\* C33 as stated: the number of requests on an identity's list goes down only
\* when a timestamp becomes older than an hour; a login of the identity keeps
\* its list.
C33_TimestampsLeaveByAgeOnly ==
    [][\A a \in Identities :
          account_request_times'[a] < account_request_times[a]
              => TimePasses]_vars

\* the call of the request raises LoginRequired or ChallengeRequired in this
\* step
AuthSignal == req.pc = "call" /\ req'.signal = "login_required"

\* C34 as stated: after an auth signal the only client that can be gone is
\* the one of the identity that served the call, wherever other workers have
\* moved the ring meanwhile.
C34_EvictsServingIdentity ==
    [][AuthSignal => (clients \ clients') \subseteq {req.user}]_vars

\* C35 as stated: the count _add_followings_to_queue returns is the number of
\* rows the call has added to discovered_accounts, also when its commit
\* failed and nothing was added.
C35_AddedCountIsRowsAdded ==
    call.op = "enqueue" =>
        call.added = BagCardinality(discovered) - call.count

\* C36: a worker that has returned, with every write of _mark_as_failed
\* accepted by the store, has left the row of its handle in Checked, Pass or
\* Fail, whichever way it went through process_username; so a completed batch
\* leaves none of its handles in Processing.
C36_ReturnedWorkerLeftFinalStatus ==
    \A r \in DOMAIN w :
        (w[r].pc = "done" /\ ~w[r].unmarked) => Final(RowStatus(r))

\* a completed batch of two: one worker's fetch returned nothing, the other
\* ended in the except branch after it had passed the evaluation
C36_BatchOfTwoFailuresDone ==
    /\ \A r \in DOMAIN w : w[r].pc = "done" /\ ~w[r].unmarked
    /\ \E r, q \in DOMAIN w :
        /\ w[r].result.error = "Failed to fetch profile data"
        /\ w[q].result.error = "exception" /\ w[q].result.passed

\* the store has refused the write of a _mark_as_failed of the current batch
RefusedMark == \E r \in DOMAIN w : w[r].unmarked

\* get_pending_usernames has nothing to return
Drained == PendingSeeds = {} /\ PendingDiscovered = {}

StoresAccepted(r) == w[r].pc = "store_commit" /\ w[r].result.passed

\* C38: a row of passed_influencers is written for a handle only by a worker
\* of that handle whose fetch returned a profile and whose check_account
\* returned passed = True; a worker without a profile or with a rejected one
\* writes none.
C38_AcceptedOnlyAfterPass ==
    [][\A u \in Handles :
          CountOf(passed', u) > CountOf(passed, u) =>
              \E r \in DOMAIN w : r.username = u /\ StoresAccepted(r)]_vars

\* one handle of a batch has its Accepted row, the other was rejected and has
\* none
C38_OneAcceptedOneRejected ==
    \E r, q \in DOMAIN w :
        /\ w[r].pc = "done" /\ w[r].result.passed /\ HasRow(passed, r.username)
        /\ w[q].pc = "done" /\ w[q].result.success /\ ~w[q].result.passed
        /\ ~HasRow(passed, q.username)

\* _get_current_client of the request gives up in this step
GivesUp == req.pc = "acquire" /\ ~req.exhausted /\ req'.exhausted

\* identity a has a client and is under its hourly maximum
Usable(a) ==
    a \in clients /\ CheckHourlyRateLimit(account_request_times, a)

\* C39 as stated: _get_current_client raises "All accounts are rate limited
\* or unavailable" only when no identity is usable at that moment, whatever
\* other workers do to the ring during the walk.
C39_GivesUpOnlyWhenNoneUsable ==
    [][GivesUp => \A a \in Identities : ~Usable(a)]_vars

=============================================================================
